---- MODULE Spec2Model ----
(***************************************************************************)
(* Model of the ripple-ldap authentication plugin (lib/ldap-auth.js).      *)
(*                                                                         *)
(* The plugin keeps two pieces of module state, LDAPAuth.config and        *)
(* LDAPAuth.client, and exposes presenterAuth and clientAuth, each a chain *)
(* of asynchronous callbacks (directory bind, directory search, search     *)
(* stream events, local lookup, local import).  Every action below is one  *)
(* synchronous run of JavaScript: a call made by the host, or one callback *)
(* invoked by a collaborator, up to the point where control returns to the *)
(* event loop.                                                             *)
(***************************************************************************)
EXTENDS Naturals, Sequences, FiniteSets, TLC

VARIABLES config, client, handles, store, att, started, loaded

vars == <<config, client, handles, store, att, started, loaded>>

(***************************************************************************)
(* Bounds of the model.                                                    *)
(***************************************************************************)
\* Authentication attempts the host starts in one run.
MaxAttempts == 2
\* searchEntry / error events one search stream emits before it ends; the
\* events field of an attempt counts the events of its open stream.
MaxEvents == 2
\* Direct calls of connect() the host makes in one run.
MaxCalls == 2
\* Documents the host hands to configLoaded in one call.
MaxDocuments == 3

\* The attempts that can be in flight together.
Attempts == {"a1", "a2"}

(***************************************************************************)
(* JavaScript values.  Every value is a record tagged by its type, so that *)
(* null, undefined, strings and objects stay distinct and comparable.  A   *)
(* string is the sequence of its pieces; the placeholder is one piece.     *)
(***************************************************************************)
Undef == [t |-> "undefined"]
Null == [t |-> "null"]
True == [t |-> "boolean", b |-> TRUE]
Str(s) == [t |-> "string", s |-> s]

\* JavaScript truthiness of a value (the !x tests of the source).
Truthy(v) ==
  \/ v.t = "object"
  \/ v.t = "string" /\ v.s # <<>>
  \/ v.t = "boolean" /\ v.b

\* obj.f : reading a property an object does not have yields undefined.
Get(obj, f) == IF f \in DOMAIN obj THEN obj[f] ELSE Undef

\* String(v), the text JavaScript makes of a value where it needs a string.
StringOf(v) ==
  CASE v.t = "string" -> v.s
    [] v.t = "undefined" -> <<"undefined">>
    [] v.t = "null" -> <<"null">>
    [] v.t = "boolean" -> IF v.b THEN <<"true">> ELSE <<"false">>
    [] v.t = "object" -> <<"[object Object]">>

\* a + b where a is a string.
Concat(a, b) == Str(StringOf(a) \o StringOf(b))

USER_ID == "{{user id}}"

ACCOUNT_NAME_PREFIX == Str(<<"LDAP-">>)

\* Index of the first piece of s equal to the placeholder, 0 when there is none
\* (String.prototype.indexOf, shifted by one).
IndexOf(s, piece) ==
  IF \E i \in 1..Len(s) : s[i] = piece
  THEN CHOOSE i \in 1..Len(s) : s[i] = piece /\ \A j \in 1..(i - 1) : s[j] # piece
  ELSE 0

\* The replacement pattern for the text before the match: $ and a grave
\* accent.  A string of this module cannot hold the accent, so the piece is
\* written with its name.
DOLLAR_GRAVE == "$[grave accent]"

\* The replacement patterns of String.prototype.replace, each one piece of a
\* string: the matched text, what follows the match, what precedes it, one $.
DollarPatterns == {"$&", "$'", DOLLAR_GRAVE, "$$"}

\* The text that replace() inserts for the replacement text: the patterns are
\* expanded, every other piece is inserted as it is.  A string pattern has no
\* groups, so $1 and the like are ordinary text.
GetSubstitution(text, before, matched, after) ==
  LET Expand[i \in 0..Len(text)] ==
        IF i = 0 THEN <<>>
        ELSE Expand[i - 1] \o
             (CASE text[i] = "$&" -> <<matched>>
                [] text[i] = "$'" -> after
                [] text[i] = DOLLAR_GRAVE -> before
                [] text[i] = "$$" -> <<"$">>
                [] OTHER -> <<text[i]>>)
  IN Expand[Len(text)]

\* template.replace(USER_ID, user) with a string pattern: only the first
\* occurrence is replaced, by the substitution for String(user).
Replace(template, piece, user) ==
  LET i == IndexOf(template.s, piece)
      before == SubSeq(template.s, 1, i - 1)
      after == SubSeq(template.s, i + 1, Len(template.s))
  IN IF i = 0 THEN template
     ELSE Str(before \o GetSubstitution(StringOf(user), before, piece, after)
              \o after)

(***************************************************************************)
(* Errors.                                                                 *)
(***************************************************************************)
Error(name, message) ==
  [t |-> "object", name |-> Str(<<name>>), message |-> Str(<<message>>)]

MissingConnection ==
  Error("MissingConnection", "LDAP connection was missing in authentication attempt")
BadCredentials == Error("BadCredentials", "Bad credentials provided")

\* Errors the directory client reports for a bind.
InvalidCredentialsError == Error("InvalidCredentialsError", "Invalid Credentials")
UnavailableError == Error("UnavailableError", "Server unavailable")
BindErrors == {InvalidCredentialsError, UnavailableError}

\* Errors the directory client reports for a search (call or error event).
OperationsError == Error("OperationsError", "Operations error")
SearchErrors == {OperationsError}

\* Errors of the local account manager.
StoreError == Error("StoreError", "database failure")
UsernameTaken == Str(<<"username-taken">>)

(***************************************************************************)
(* Configuration.                                                          *)
(***************************************************************************)
Fields == {"hostname", "bindDNFormat", "baseDN", "presenterFilter", "clientFilter"}

\* LDAPAuth.config as the module starts: {}.
EmptyConfig == [t |-> "object"]

GoodConfig ==
  [t |-> "object",
   hostname |-> Str(<<"ldaps://ldap.yoursite.com">>),
   bindDNFormat |-> Str(<<USER_ID, "@ldap.yoursite.com">>),
   baseDN |-> Str(<<"DC=ldap,DC=yoursite,DC=com">>),
   presenterFilter |-> Str(<<"(&(uid=", USER_ID, ")(objectClass=person))">>),
   clientFilter |-> Str(<<"(&(CN=", USER_ID, ")(objectClass=person))">>)]

\* Data the host hands to loadConfig: a complete configuration, and the record
\* the host holds before the form was filled in.
ConfigInputs ==
  {GoodConfig, [t |-> "object", name |-> Str(<<"ldap-authentication">>)]}

\* The per-field checks, with two switches: both says that a template field
\* that is not set also gets the placeholder message, magic says that a
\* template field that is set is searched for the placeholder.
validateConfiguration_Fields(cfg, both, magic) ==
  LET required(f, msg) ==
        IF ~Truthy(Get(cfg, f)) THEN <<msg>> ELSE <<>>
      template(f, msg, missing) ==
        IF ~Truthy(Get(cfg, f)) THEN (IF both THEN <<msg, missing>> ELSE <<msg>>)
        ELSE IF magic /\ IndexOf(Get(cfg, f).s, USER_ID) = 0 THEN <<missing>>
        ELSE <<>>
  IN required("hostname", "Hostname is required")
     \o template("bindDNFormat", "Bind DN format is required",
                 "Invalid bindDN format - missing \"{{user id}}\"")
     \o required("baseDN", "Base DN is required")
     \o template("presenterFilter", "Presenter filter is required",
                 "Invalid presenter filter format - missing \"{{user id}}\"")
     \o template("clientFilter", "Client filter is required",
                 "Invalid client filter format - missing \"{{user id}}\"")

\* Variant of validateConfiguration: "if" in the place of "else if".
validateConfiguration_NoElse(cfg) ==
  IF ~Truthy(cfg) THEN <<"No configuration has been loaded">>
  ELSE validateConfiguration_Fields(cfg, TRUE, TRUE)

\* Variant of validateConfiguration: set fields are not searched for the
\* placeholder.
validateConfiguration_NoPlaceholderTest(cfg) ==
  IF ~Truthy(cfg) THEN <<"No configuration has been loaded">>
  ELSE validateConfiguration_Fields(cfg, FALSE, FALSE)

\* Variant of validateConfiguration: no test of the configuration itself.
validateConfiguration_NoConfigTest(cfg) ==
  validateConfiguration_Fields(cfg, FALSE, TRUE)

\* Variant of validateConfiguration: the first error found ends the checks.
validateConfiguration_FirstError(cfg) ==
  IF ~Truthy(cfg) THEN <<"No configuration has been loaded">>
  ELSE LET errors == validateConfiguration_Fields(cfg, FALSE, TRUE)
       IN IF errors = <<>> THEN errors ELSE <<errors[1]>>

\* validateConfiguration(): the list of error messages for a configuration.
validateConfiguration(cfg) ==
  IF ~Truthy(cfg) THEN <<"No configuration has been loaded">>
  ELSE
    LET required(f, msg) ==
          IF ~Truthy(Get(cfg, f)) THEN <<msg>> ELSE <<>>
        template(f, msg, missing) ==
          IF ~Truthy(Get(cfg, f)) THEN <<msg>>
          ELSE IF IndexOf(Get(cfg, f).s, USER_ID) = 0 THEN <<missing>>
          ELSE <<>>
    IN required("hostname", "Hostname is required")
       \o template("bindDNFormat", "Bind DN format is required",
                   "Invalid bindDN format - missing \"{{user id}}\"")
       \o required("baseDN", "Base DN is required")
       \o template("presenterFilter", "Presenter filter is required",
                   "Invalid presenter filter format - missing \"{{user id}}\"")
       \o template("clientFilter", "Client filter is required",
                   "Invalid client filter format - missing \"{{user id}}\"")

\* Variant of loadConfig: the data is stored as it comes.
loadConfig_Whole(data) == data

\* loadConfig(data): the stored configuration holds the five known fields of data.
loadConfig(data) ==
  [f \in Fields \cup {"t"} |-> IF f = "t" THEN "object" ELSE Get(data, f)]

\* setConfig(data), the name of loadConfig in the versions of the plugin that
\* have the configLoaded hook.
setConfig(data) ==
  [f \in Fields \cup {"t"} |-> IF f = "t" THEN "object" ELSE Get(data, f)]

\* The name of the document that holds the configuration of this plugin.
PLUGIN_NAME == Str(<<"ldap-authentication">>)

\* Variant of configLoaded: the name of the document is not tested.
configLoaded_Every(documents) == documents

\* configLoaded(documents): the documents handed to setConfig, in the order of
\* the calls.
configLoaded(documents) ==
  LET Loop[i \in 0..Len(documents)] ==
        IF i = 0 THEN <<>>
        ELSE IF Get(documents[i], "name") = PLUGIN_NAME
             THEN Append(Loop[i - 1], documents[i])
             ELSE Loop[i - 1]
  IN Loop[Len(documents)]

\* The hook has not run: no documents, no call of setConfig.
NoDocuments == [documents |-> <<>>, setConfig |-> <<>>]

(***************************************************************************)
(* Connection handle.  LDAPAuth.client is 0 (null) or the index in         *)
(* handles of the handle createClient returned.                            *)
(***************************************************************************)
\* Variant of connect: the configuration is not validated.
connect_Unvalidated(cfg, cl, hs) ==
  [client |-> Len(hs) + 1,
   handles |-> Append(hs, [url |-> Get(cfg, "hostname"), unbinds |-> 0])]

\* connect(): a new handle when the configuration is valid, nothing otherwise.
connect(cfg, cl, hs) ==
  IF Len(validateConfiguration(cfg)) > 0
  THEN [client |-> cl, handles |-> hs]
  ELSE [client |-> Len(hs) + 1,
        handles |-> Append(hs, [url |-> Get(cfg, "hostname"), unbinds |-> 0])]

\* Variant of disconnect: the handle is unbound but not forgotten.
disconnect_KeepHandle(cl, hs) ==
  IF cl # 0
  THEN [client |-> cl, handles |-> [hs EXCEPT ![cl].unbinds = @ + 1]]
  ELSE [client |-> cl, handles |-> hs]

\* Variant of disconnect: the handle is forgotten without unbind.
disconnect_NoUnbind(cl, hs) == [client |-> 0, handles |-> hs]

\* disconnect(): unbind and forget the current handle, if there is one.
disconnect(cl, hs) ==
  IF cl # 0
  THEN [client |-> 0, handles |-> [hs EXCEPT ![cl].unbinds = @ + 1]]
  ELSE [client |-> cl, handles |-> hs]

(***************************************************************************)
(* Decisions of the callbacks.  A decision says what the callback does     *)
(* next: deliver (err, user) to the host through the disconnecting         *)
(* wrapper, or call the next collaborator.                                 *)
(***************************************************************************)
Deliver(err, user) == [do |-> "deliver", err |-> err, user |-> user]

\* bind(auth, callback) after connect(): the checks before the directory bind.
\* Variant of bind: the credentials are tested before the handle.
bind_CredentialsFirst(auth, cfg, cl) ==
  IF ~Truthy(auth) \/ ~Truthy(Get(auth, "password")) \/ ~Truthy(Get(auth, "user"))
  THEN [do |-> "callback", err |-> BadCredentials]
  ELSE IF cl = 0 THEN [do |-> "callback", err |-> MissingConnection]
  ELSE IF Get(cfg, "bindDNFormat").t # "string"
  THEN [do |-> "throw"]
  ELSE [do |-> "bind",
        dn |-> Replace(Get(cfg, "bindDNFormat"), USER_ID, Get(auth, "user")),
        password |-> Get(auth, "password")]

\* Variant of bind: the user of the credentials is not tested.
bind_UserUnchecked(auth, cfg, cl) ==
  IF cl = 0 THEN [do |-> "callback", err |-> MissingConnection]
  ELSE IF ~Truthy(auth) \/ ~Truthy(Get(auth, "password"))
  THEN [do |-> "callback", err |-> BadCredentials]
  ELSE IF Get(cfg, "bindDNFormat").t # "string"
  THEN [do |-> "throw"]
  ELSE [do |-> "bind",
        dn |-> Replace(Get(cfg, "bindDNFormat"), USER_ID, Get(auth, "user")),
        password |-> Get(auth, "password")]

bind(auth, cfg, cl) ==
  IF cl = 0 THEN [do |-> "callback", err |-> MissingConnection]
  ELSE IF ~Truthy(auth) \/ ~Truthy(Get(auth, "password")) \/ ~Truthy(Get(auth, "user"))
  THEN [do |-> "callback", err |-> BadCredentials]
  ELSE IF Get(cfg, "bindDNFormat").t # "string"
  THEN [do |-> "throw"]
  ELSE [do |-> "bind",
        dn |-> Replace(Get(cfg, "bindDNFormat"), USER_ID, Get(auth, "user")),
        password |-> Get(auth, "password")]

\* Variant of bindAfterDirectory: a directory error is reported as bad
\* credentials.
bindAfterDirectory_BadCredentials(err) ==
  IF Truthy(err) THEN BadCredentials ELSE Null

\* bind(): the callback given to the directory client's bind.
bindAfterDirectory(err) ==
  IF Truthy(err) THEN err ELSE Null

\* Variant of presenterAfterBind: every bind error is taken for a fallback.
presenterAfterBind_AllFallback(err, cfg) ==
  IF Truthy(err)
  THEN Deliver(Undef, Undef)
  ELSE [do |-> "search", filter |-> Get(cfg, "presenterFilter")]

\* Variant of presenterAfterBind: invalid credentials are an error like any other.
presenterAfterBind_NoFallback(err, cfg) ==
  IF Truthy(err)
  THEN Deliver(err, Null)
  ELSE [do |-> "search", filter |-> Get(cfg, "presenterFilter")]

\* presenterAuth: the callback given to bind.
presenterAfterBind(err, cfg) ==
  IF Truthy(err)
  THEN IF Get(err, "name") = Str(<<"InvalidCredentialsError">>)
       THEN Deliver(Undef, Undef)
       ELSE Deliver(err, Null)
  ELSE [do |-> "search", filter |-> Get(cfg, "presenterFilter")]

\* Variant of clientAfterBind: the bind error is not looked at.
clientAfterBind_Unchecked(err, cfg) ==
  [do |-> "search", filter |-> Get(cfg, "clientFilter")]

\* Variant of clientAfterBind: invalid credentials fall back as for presenters.
clientAfterBind_Fallback(err, cfg) ==
  IF Truthy(err)
  THEN IF Get(err, "name") = Str(<<"InvalidCredentialsError">>)
       THEN Deliver(Undef, Undef)
       ELSE Deliver(err, Null)
  ELSE [do |-> "search", filter |-> Get(cfg, "clientFilter")]

\* clientAuth: the callback given to bind.
clientAfterBind(err, cfg) ==
  IF Truthy(err)
  THEN Deliver(err, Null)
  ELSE [do |-> "search", filter |-> Get(cfg, "clientFilter")]

\* Variant of getLDAPUserAfterSearch: the handlers are registered even when
\* the search call reported an error.
getLDAPUserAfterSearch_Listen(err) == [do |-> "listen"]

\* getLDAPUser: the callback given to client.search.
getLDAPUserAfterSearch(err) ==
  IF Truthy(err)
  THEN [do |-> "callback", err |-> err, user |-> Null]
  ELSE [do |-> "listen"]

\* Variant of onSearchEntry: an entry overwrites only the fields it has.
onSearchEntry_KeepEarlier(newUser, entry) ==
  [f \in DOMAIN newUser \cup {"name", "email"} |->
     IF f = "name" /\ "displayName" \in DOMAIN entry.object
     THEN entry.object.displayName
     ELSE IF f = "email" /\ "mail" \in DOMAIN entry.object
     THEN entry.object.mail
     ELSE Get(newUser, f)]

\* getLDAPUser: the searchEntry handler.
onSearchEntry(newUser, entry) ==
  [f \in DOMAIN newUser \cup {"name", "email"} |->
     IF f = "name" THEN Get(entry.object, "displayName")
     ELSE IF f = "email" THEN Get(entry.object, "mail")
     ELSE newUser[f]]

\* Variant of onSearchEnd: a stream without entries yields no record.
onSearchEnd_NullWhenEmpty(failure, newUser) ==
  IF Truthy(failure)
  THEN [err |-> failure, user |-> Undef]
  ELSE [err |-> Null, user |-> IF newUser = [t |-> "object"] THEN Null ELSE newUser]

\* Variant of onSearchEnd: the kept error is not looked at when the stream ends.
onSearchEnd_IgnoreFailure(failure, newUser) ==
  [err |-> Null, user |-> newUser]

\* Variant of onSearchEnd: the record is handed over along with the error.
onSearchEnd_RecordWithError(failure, newUser) ==
  [err |-> IF Truthy(failure) THEN failure ELSE Null, user |-> newUser]

\* getLDAPUser: the end handler.
onSearchEnd(failure, newUser) ==
  IF Truthy(failure)
  THEN [err |-> failure, user |-> Undef]
  ELSE [err |-> Null, user |-> newUser]

\* Variant of presenterAfterGetLDAPUser: a search error falls back to local
\* authentication.
presenterAfterGetLDAPUser_ErrorFallback(err, userLDAPData, auth) ==
  IF Truthy(err) \/ ~Truthy(userLDAPData) \/ ~Truthy(Get(userLDAPData, "name"))
  THEN Deliver(Undef, Undef)
  ELSE [do |-> "find", localName |-> Concat(ACCOUNT_NAME_PREFIX, Get(auth, "user"))]

\* Variant of presenterAfterGetLDAPUser: the record is not tested for a name.
presenterAfterGetLDAPUser_NoNameTest(err, userLDAPData, auth) ==
  IF Truthy(err) THEN Deliver(err, Null)
  ELSE [do |-> "find", localName |-> Concat(ACCOUNT_NAME_PREFIX, Get(auth, "user"))]

\* presenterAuth: the callback given to getLDAPUser.
presenterAfterGetLDAPUser(err, userLDAPData, auth) ==
  IF Truthy(err) THEN Deliver(err, Null)
  ELSE IF ~Truthy(userLDAPData) \/ ~Truthy(Get(userLDAPData, "name"))
  THEN Deliver(Undef, Undef)
  ELSE [do |-> "find", localName |-> Concat(ACCOUNT_NAME_PREFIX, Get(auth, "user"))]

\* Variant of clientAfterGetLDAPUser: a record without a name is not delivered.
clientAfterGetLDAPUser_NameTest(err, userData) ==
  IF Truthy(err) THEN Deliver(err, Null)
  ELSE IF ~Truthy(Get(userData, "name")) THEN Deliver(Null, Null)
  ELSE Deliver(Null, userData)

\* clientAuth: the callback given to getLDAPUser.
clientAfterGetLDAPUser(err, userData) ==
  IF Truthy(err) THEN Deliver(err, Null) ELSE Deliver(Null, userData)

\* Variant of importRecord: the account is not marked external.
importRecord_NotExternal(userLDAPData, localName) ==
  [f \in DOMAIN userLDAPData \cup {"user", "pass"} |->
     IF f = "user" THEN localName
     ELSE IF f = "pass" THEN Str(<<"LDAP">>)
     ELSE userLDAPData[f]]

\* presenterAuth: the record handed to importLocalUser.
importRecord(userLDAPData, localName) ==
  [f \in DOMAIN userLDAPData \cup {"user", "pass", "external"} |->
     IF f = "user" THEN localName
     ELSE IF f = "pass" THEN Str(<<"LDAP">>)
     ELSE IF f = "external" THEN True
     ELSE userLDAPData[f]]

\* presenterAuth: the callback given to findLocalUser.
presenterAfterFindLocalUser(err, user, userLDAPData, localName) ==
  IF Truthy(user) THEN Deliver(err, user)
  ELSE [do |-> "import", user |-> importRecord(userLDAPData, localName)]

\* presenterAuth: the callback given to importLocalUser.
presenterAfterImport(err, user) ==
  IF Truthy(err) THEN Deliver(err, user) ELSE Deliver(Null, user)

(***************************************************************************)
(* Collaborators: the local account manager.                               *)
(***************************************************************************)
\* AM.findUserByName on a store of user records with unique user names.
Lookup(st, name) ==
  IF \E u \in st : u.user = name THEN CHOOSE u \in st : u.user = name ELSE Null

(***************************************************************************)
(* Inputs.                                                                 *)
(***************************************************************************)
Credentials(user, password) ==
  [t |-> "object", user |-> Str(user), password |-> Str(password)]

\* What the host passes as auth: nothing, an empty password, two good logins.
Auths ==
  {Null, Credentials(<<"alice">>, <<>>),
   Credentials(<<"alice">>, <<"secret">>), Credentials(<<"bob">>, <<"hunter2">>)}

\* Entries a directory search streams back (entry.object).
Entries ==
  {[object |-> [t |-> "object", displayName |-> Str(<<"Full Name">>),
                mail |-> Str(<<"email@example.com">>)]],
   [object |-> [t |-> "object", mail |-> Str(<<"list@example.com">>)]]}

\* The local account that exists before any import: alice has presented
\* before, bob has not.
LocalAlice ==
  [t |-> "object", name |-> Str(<<"Joebob Smith-Wesson">>),
   email |-> Str(<<"joebob@example.com">>), user |-> Str(<<"LDAP-", "alice">>),
   pass |-> Str(<<"LDAP">>), external |-> True]

(***************************************************************************)
(* One authentication attempt: the closure state of a presenterAuth or     *)
(* clientAuth call, and a record of the calls it made.                     *)
(***************************************************************************)
NoCalls ==
  [connect |-> 0, bind |-> 0, getLDAPUser |-> 0, search |-> 0, findLocalUser |-> 0,
   importLocalUser |-> 0, disconnect |-> 0, cb |-> 0]

NewAttempt ==
  [pc |-> "idle", kind |-> "none", auth |-> Null,
   handle |-> 0, dn |-> Undef, password |-> Undef, dirErr |-> Undef, bindErr |-> Undef,
   localAtBind |-> Undef,
   searchOn |-> 0, filter |-> Undef, base |-> Undef, searchErr |-> Undef,
   newUser |-> Undef, failure |-> Undef, events |-> 0, lastEntry |-> Undef,
   ldapErr |-> Undef, ldapUser |-> Undef, localName |-> Undef,
   localAtFind |-> Undef, found |-> Undef,
   importArg |-> Undef, importErr |-> Undef,
   calls |-> NoCalls, result |-> Undef]

Init ==
  /\ config = EmptyConfig
  /\ client = 0
  /\ handles = <<>>
  /\ store = {LocalAlice}
  /\ att = [a \in Attempts |-> NewAttempt]
  /\ started = 0
  /\ loaded = NoDocuments

\* The wrapper callback of presenterAuth and clientAuth: disconnect(), then cb.
Delivered(r, err, user) ==
  [r EXCEPT !.pc = "done", !.result = [err |-> err, user |-> user],
            !.calls.disconnect = @ + 1, !.calls.cb = @ + 1]

\* getLDAPUser(auth, filter, callback) up to the client.search call.  Reading
\* a property of a null client, of an undefined filter or of a null auth throws.
getLDAPUser(r, cl, cfg, filter) ==
  IF cl = 0 \/ filter.t # "string" \/ r.auth.t # "object"
  THEN [r EXCEPT !.pc = "crashed", !.calls.getLDAPUser = @ + 1]
  ELSE [r EXCEPT !.pc = "searching", !.calls.getLDAPUser = @ + 1,
                 !.calls.search = @ + 1, !.searchOn = cl,
                 !.base = Get(cfg, "baseDN"),
                 !.filter = Replace(filter, USER_ID, Get(r.auth, "user"))]

\* Carry out a decision d of attempt a, whose record is r so far, with the
\* handle cl and the handles hs as the callback left them.  The record that
\* presenterAuth hands to importLocalUser is the object getLDAPUser built and
\* delivered, with three properties added: newUser and ldapUser show them too.
Continue(a, r, cl, hs, d) ==
  IF d.do = "deliver"
  THEN /\ att' = [att EXCEPT ![a] = Delivered(r, d.err, d.user)]
       /\ client' = disconnect(cl, hs).client
       /\ handles' = disconnect(cl, hs).handles
  ELSE /\ client' = cl
       /\ handles' = hs
       /\ att' = [att EXCEPT ![a] =
            CASE d.do = "search" -> getLDAPUser(r, cl, config, d.filter)
              [] d.do = "find" ->
                   [r EXCEPT !.pc = "finding", !.localName = d.localName,
                             !.localAtFind = Lookup(store, d.localName),
                             !.calls.findLocalUser = @ + 1]
              [] d.do = "import" ->
                   [r EXCEPT !.pc = "importing", !.importArg = d.user,
                             !.newUser = d.user, !.ldapUser = d.user,
                             !.calls.importLocalUser = @ + 1]
              [] d.do = "bind" ->
                   [r EXCEPT !.pc = "binding", !.dn = d.dn, !.password = d.password,
                             !.calls.bind = @ + 1]
              [] d.do = "throw" -> [r EXCEPT !.pc = "crashed"]
              [] d.do = "listen" ->
                   [r EXCEPT !.pc = "streaming", !.newUser = [t |-> "object"],
                             !.failure = Null]]

AfterBind(kind, err, cfg) ==
  IF kind = "presenter" THEN presenterAfterBind(err, cfg) ELSE clientAfterBind(err, cfg)

AfterGetLDAPUser(kind, err, user, auth) ==
  IF kind = "presenter" THEN presenterAfterGetLDAPUser(err, user, auth)
  ELSE clientAfterGetLDAPUser(err, user)

\* A slot is free when no attempt is in flight in it.  The host's next call
\* takes the first free slot.
Free(a) == att[a].pc \in {"idle", "done", "crashed"}

Slot(a) == IF a = "a1" THEN 1 ELSE 2

(***************************************************************************)
(* Actions.                                                                *)
(***************************************************************************)
\* The host saves or loads the plugin configuration.
LoadConfig ==
  /\ \E data \in ConfigInputs : config' = loadConfig(data)
  /\ config' # config
  /\ UNCHANGED <<loaded, client, handles, store, att, started>>

\* Variant of Authenticate: bind() connects only when there is no handle.
Authenticate_ConnectIfAbsent(a, kind, auth) ==
  /\ Free(a)
  /\ \A b \in Attempts : Free(b) => Slot(a) <= Slot(b)
  /\ started < MaxAttempts
  /\ started' = started + 1
  /\ LET c == IF client = 0 THEN connect(config, client, handles)
              ELSE [client |-> client, handles |-> handles]
         b == bind(auth, config, c.client)
         r == [NewAttempt EXCEPT !.kind = kind, !.auth = auth, !.calls.connect = 1,
                                 !.handle = c.client]
     IN IF b.do = "callback"
        THEN Continue(a, [r EXCEPT !.bindErr = b.err], c.client, c.handles,
                      AfterBind(kind, b.err, config))
        ELSE Continue(a, r, c.client, c.handles, b)
  /\ UNCHANGED <<loaded, config, store>>

\* The host calls presenterAuth(auth, cb) or clientAuth(auth, cb): bind()
\* connects, checks, and either calls back at once or issues the directory bind.
Authenticate(a, kind, auth) ==
  /\ Free(a)
  /\ \A b \in Attempts : Free(b) => Slot(a) <= Slot(b)
  /\ started < MaxAttempts
  /\ started' = started + 1
  /\ LET c == connect(config, client, handles)
         b == bind(auth, config, c.client)
         r == [NewAttempt EXCEPT !.kind = kind, !.auth = auth, !.calls.connect = 1,
                                 !.handle = c.client]
     IN IF b.do = "callback"
        THEN Continue(a, [r EXCEPT !.bindErr = b.err], c.client, c.handles,
                      AfterBind(kind, b.err, config))
        ELSE Continue(a, r, c.client, c.handles, b)
  /\ UNCHANGED <<loaded, config, store>>

PresenterAuth(a) == \E auth \in Auths : Authenticate(a, "presenter", auth)

ClientAuth(a) == \E auth \in Auths : Authenticate(a, "client", auth)

\* The directory answers the bind: bind's callback, then the flow's callback.
BindReturns(a) ==
  /\ att[a].pc = "binding"
  /\ \E err \in {Null} \cup BindErrors :
       LET r == [att[a] EXCEPT !.dirErr = err, !.bindErr = bindAfterDirectory(err),
                   !.localAtBind =
                      Lookup(store, Concat(ACCOUNT_NAME_PREFIX, Get(att[a].auth, "user")))]
       IN Continue(a, r, client, handles, AfterBind(r.kind, r.bindErr, config))
  /\ UNCHANGED <<loaded, config, store, started>>

\* The directory answers the search call: an error, or a result stream.
SearchReturns(a) ==
  /\ att[a].pc = "searching"
  /\ \E err \in {Null} \cup SearchErrors :
       LET d == getLDAPUserAfterSearch(err)
           r == [att[a] EXCEPT !.searchErr = err]
       IN IF d.do = "callback"
          THEN Continue(a, r, client, handles,
                        AfterGetLDAPUser(r.kind, d.err, d.user, r.auth))
          ELSE Continue(a, r, client, handles, d)
  /\ UNCHANGED <<loaded, config, store, started>>

\* The result stream emits searchEntry.
SearchEntry(a) ==
  /\ att[a].pc = "streaming"
  /\ att[a].events < MaxEvents
  /\ \E entry \in Entries :
       att' = [att EXCEPT ![a].newUser = onSearchEntry(@, entry),
                          ![a].lastEntry = entry.object,
                          ![a].events = @ + 1]
  /\ UNCHANGED <<loaded, config, client, handles, store, started>>

\* The result stream emits error: the handler keeps the error.  The directory
\* client either goes on to emit end, or ends the stream with this event.
SearchError(a) ==
  /\ att[a].pc = "streaming"
  /\ att[a].events < MaxEvents
  /\ \E err \in SearchErrors, last \in BOOLEAN :
       att' = [att EXCEPT ![a].failure = err,
                          ![a].events = IF last THEN 0 ELSE @ + 1,
                          ![a].pc = IF last THEN "closed" ELSE "streaming"]
  /\ UNCHANGED <<loaded, config, client, handles, store, started>>

\* The result stream emits end: getLDAPUser calls back, and the flow goes on.
SearchEnd(a) ==
  /\ att[a].pc = "streaming"
  /\ LET e == onSearchEnd(att[a].failure, att[a].newUser)
         r == [att[a] EXCEPT !.ldapErr = e.err, !.ldapUser = e.user, !.events = 0]
     IN Continue(a, r, client, handles,
                 AfterGetLDAPUser(r.kind, e.err, e.user, r.auth))
  /\ UNCHANGED <<loaded, config, store, started>>

\* The account manager answers findUserByName: the stored user or none, or
\* a failure of the store.  The store is read at some time between the call
\* and the callback; it only grows, so the answer is the one of the time of the
\* call or the one of the time of the callback.
FindReturns(a) ==
  /\ att[a].pc = "finding"
  /\ \E res \in {[err |-> Null, user |-> Lookup(store, att[a].localName)],
                 [err |-> Null, user |-> att[a].localAtFind],
                 [err |-> StoreError, user |-> Null]} :
       LET r == [att[a] EXCEPT !.found = res]
       IN Continue(a, r, client, handles,
                   presenterAfterFindLocalUser(res.err, res.user, r.ldapUser, r.localName))
  /\ UNCHANGED <<loaded, config, store, started>>

\* The account manager answers signup: the name is taken, the store fails, or
\* the record is stored.  importLocalUser passes the record on with the error.
ImportReturns(a) ==
  /\ att[a].pc = "importing"
  /\ \E err \in {Null, StoreError, UsernameTaken} :
       /\ (err = UsernameTaken) => Truthy(Lookup(store, att[a].importArg.user))
       /\ (err = Null) => ~Truthy(Lookup(store, att[a].importArg.user))
       /\ store' = IF err = Null THEN store \cup {att[a].importArg} ELSE store
       /\ LET r == [att[a] EXCEPT !.importErr = err]
          IN Continue(a, r, client, handles, presenterAfterImport(err, r.importArg))
  /\ UNCHANGED <<loaded, config, started>>

Next ==
  \/ LoadConfig
  \/ \E a \in Attempts :
       \/ PresenterAuth(a)
       \/ ClientAuth(a)
       \/ BindReturns(a)
       \/ SearchReturns(a)
       \/ SearchEntry(a)
       \/ SearchError(a)
       \/ SearchEnd(a)
       \/ FindReturns(a)
       \/ ImportReturns(a)

Spec == Init /\ [][Next]_vars

(***************************************************************************)
(* One attempt at a time, while the host replaces the configuration by     *)
(* that of another directory.                                              *)
(***************************************************************************)
\* The sample values of the README: a second complete configuration.
OtherConfig ==
  [t |-> "object",
   hostname |-> Str(<<"ad.yourdomain.com">>),
   bindDNFormat |-> Str(<<USER_ID, "@ad.yourdomain.com">>),
   baseDN |-> Str(<<"DC=ldap,DC=yourdomain,DC=com">>),
   presenterFilter |-> Str(<<"(&(CN=", USER_ID, ")(objectClass=person))">>),
   clientFilter |-> Str(<<"(&(CN=", USER_ID, ")(objectClass=person))">>)]

\* The host saves the configuration of the other directory.
LoadOtherConfig ==
  /\ config' = loadConfig(OtherConfig)
  /\ config' # config
  /\ UNCHANGED <<loaded, client, handles, store, att, started>>

NextReconfig ==
  \/ LoadConfig
  \/ LoadOtherConfig
  \/ PresenterAuth("a1")
  \/ ClientAuth("a1")
  \/ BindReturns("a1")
  \/ SearchReturns("a1")
  \/ SearchEntry("a1")
  \/ SearchError("a1")
  \/ SearchEnd("a1")
  \/ FindReturns("a1")
  \/ ImportReturns("a1")

SpecReconfig == Init /\ [][NextReconfig]_vars

(***************************************************************************)
(* The host sets LDAPAuth.config to any configuration and calls connect()  *)
(* and disconnect() itself.                                                *)
(***************************************************************************)
\* What a field of a configuration can hold: nothing, null, the empty string,
\* a text without the placeholder, or the good value of the field.
FieldValues(f) ==
  {Undef, Null, Str(<<>>), Str(<<"Filled out but no magic string">>), GoodConfig[f]}

\* LDAPAuth.config as the host can set it: no configuration, or an object.
Configurations ==
  {Null, Undef} \cup
  {[t |-> "object", hostname |-> h, bindDNFormat |-> b, baseDN |-> d,
    presenterFilter |-> p, clientFilter |-> c] :
     h \in FieldValues("hostname"), b \in FieldValues("bindDNFormat"),
     d \in FieldValues("baseDN"), p \in FieldValues("presenterFilter"),
     c \in FieldValues("clientFilter")}

InitValidate ==
  /\ config \in Configurations
  /\ client = 0
  /\ handles = <<>>
  /\ store = {LocalAlice}
  /\ att = [a \in Attempts |-> NewAttempt]
  /\ started = 0
  /\ loaded = NoDocuments

\* The host calls connect(): validateConfiguration(), then createClient.
Connect ==
  /\ started < MaxCalls
  /\ started' = started + 1
  /\ client' = connect(config, client, handles).client
  /\ handles' = connect(config, client, handles).handles
  /\ UNCHANGED <<loaded, config, store, att>>

\* The host calls disconnect() while a handle is set.
Disconnect ==
  /\ client # 0
  /\ client' = disconnect(client, handles).client
  /\ handles' = disconnect(client, handles).handles
  /\ UNCHANGED <<loaded, config, store, att, started>>

NextValidate == Connect \/ Disconnect

SpecValidate == InitValidate /\ [][NextValidate]_vars

(***************************************************************************)
(* The host runs the configLoaded hook with the documents of all plugins.  *)
(***************************************************************************)
\* Documents of the host's store: two of other plugins, one without a name,
\* and two of this plugin.
Documents ==
  {[t |-> "object", name |-> Str(<<"foo">>), hostname |-> Str(<<"foo.yoursite.com">>)],
   [t |-> "object", name |-> Str(<<"bar">>)],
   GoodConfig,
   [t |-> "object", name |-> PLUGIN_NAME],
   [f \in DOMAIN GoodConfig \cup {"name"} |->
      IF f = "name" THEN PLUGIN_NAME ELSE GoodConfig[f]]}

DocumentLists ==
  UNION {[1..n -> Documents] : n \in 0..MaxDocuments}

\* The host calls configLoaded(documents).
ConfigLoaded ==
  /\ \E documents \in DocumentLists :
       LET calls == configLoaded(documents)
       IN /\ loaded' = [documents |-> documents, setConfig |-> calls]
          /\ config' = IF calls = <<>> THEN config ELSE setConfig(calls[Len(calls)])
  /\ UNCHANGED <<client, handles, store, att, started>>

\* The host calls menuSave(data).
MenuSave ==
  /\ \E data \in Documents :
       /\ loaded' = [documents |-> <<>>, setConfig |-> <<data>>]
       /\ config' = setConfig(data)
  /\ UNCHANGED <<client, handles, store, att, started>>

NextConfigLoaded == ConfigLoaded \/ MenuSave

SpecConfigLoaded == Init /\ [][NextConfigLoaded]_vars

(***************************************************************************)
(* One attempt at a time, under any configuration the host can set and     *)
(* with any credentials the host can pass.                                 *)
(***************************************************************************)
\* Complete configurations whose templates hold the placeholder once or twice.
RepeatedConfigs ==
  {[GoodConfig EXCEPT !.bindDNFormat = b, !.presenterFilter = p, !.clientFilter = c] :
     b \in {GoodConfig.bindDNFormat, Str(<<"uid=", USER_ID, ",cn=", USER_ID>>)},
     p \in {GoodConfig.presenterFilter,
            Str(<<"(|(uid=", USER_ID, ")(cn=", USER_ID, "))">>)},
     c \in {GoodConfig.clientFilter,
            Str(<<"(|(CN=", USER_ID, ")(mail=", USER_ID, "@yoursite.com))">>)}}

\* What the host passes as auth, with the ill-formed cases: undefined, no
\* user, an empty user; with user names that hold a replacement pattern; and
\* with users that are no strings.
AllAuths ==
  Auths \cup {Undef, [t |-> "object", password |-> Str(<<"secret">>)],
              Credentials(<<>>, <<"secret">>)}
        \cup {Credentials(<<p>>, <<"secret">>) : p \in DollarPatterns}
        \cup {[t |-> "object", user |-> u, password |-> Str(<<"secret">>)] :
                u \in {True, [t |-> "object"]}}

\* No configuration, the configuration the module starts with, and the good
\* configuration with one field changed.
NearConfigs ==
  {Null, Undef, EmptyConfig} \cup
  {[GoodConfig EXCEPT ![f] = v] : f \in Fields, v \in FieldValues("hostname")}

InitOneAttempt ==
  /\ config \in NearConfigs \cup RepeatedConfigs
  /\ client = 0
  /\ handles = <<>>
  /\ store = {LocalAlice}
  /\ att = [a \in Attempts |-> NewAttempt]
  /\ started = 0
  /\ loaded = NoDocuments

PresenterAuthWith(a) == \E auth \in AllAuths : Authenticate(a, "presenter", auth)

ClientAuthWith(a) == \E auth \in AllAuths : Authenticate(a, "client", auth)

NextOneAttempt ==
  \/ PresenterAuthWith("a1")
  \/ ClientAuthWith("a1")
  \/ BindReturns("a1")
  \/ SearchReturns("a1")
  \/ SearchEntry("a1")
  \/ SearchError("a1")
  \/ SearchEnd("a1")
  \/ FindReturns("a1")
  \/ ImportReturns("a1")

SpecOneAttempt == InitOneAttempt /\ [][NextOneAttempt]_vars

(***************************************************************************)
(* Properties.                                                             *)
(***************************************************************************)
\* A value the host sees as "no error" or "no user".
Absent(v) == v.t \in {"null", "undefined"}

Done(a) == att[a].pc = "done"

Presenter(a) == att[a].kind = "presenter"

Client(a) == att[a].kind = "client"

\* C1: a user reaches the host callback only after the directory bind that the
\* same attempt issued for its own credentials came back without error; never
\* after MissingConnection, BadCredentials or a directory bind error.
C1_UserOnlyAfterOwnBind ==
  \A a \in Attempts :
    (Done(a) /\ ~Absent(att[a].result.user)) =>
      /\ att[a].bindErr = Null
      /\ att[a].calls.bind = 1
      /\ \E data \in ConfigInputs :
           /\ Get(data, "bindDNFormat").t = "string"
           /\ att[a].dn = Replace(data.bindDNFormat, USER_ID, att[a].auth.user)

C1_Witness ==
  \E a, b \in Attempts :
    /\ a # b /\ Done(a) /\ Done(b)
    /\ ~Absent(att[a].result.user)
    /\ Truthy(att[b].bindErr) /\ Absent(att[b].result.user)

\* C2: presenterAuth, bind failed with InvalidCredentialsError: the host gets no
\* error and no user, and getLDAPUser, findLocalUser and importLocalUser were
\* not called.
C2_PresenterInvalidCredentials ==
  \A a \in Attempts :
    (Done(a) /\ Presenter(a) /\ att[a].bindErr = InvalidCredentialsError) =>
      /\ Absent(att[a].result.err)
      /\ Absent(att[a].result.user)
      /\ att[a].calls.getLDAPUser = 0
      /\ att[a].calls.findLocalUser = 0
      /\ att[a].calls.importLocalUser = 0

C2_Witness ==
  \E a \in Attempts :
    Done(a) /\ Presenter(a) /\ att[a].bindErr = InvalidCredentialsError

\* C3: presenterAuth, bind failed with any other error (MissingConnection and
\* BadCredentials included): the host gets exactly that error and no user, and
\* getLDAPUser was not called.
C3_PresenterBindError ==
  \A a \in Attempts :
    (Done(a) /\ Presenter(a) /\ Truthy(att[a].bindErr)
       /\ att[a].bindErr # InvalidCredentialsError) =>
      /\ att[a].result.err = att[a].bindErr
      /\ Absent(att[a].result.user)
      /\ att[a].calls.getLDAPUser = 0

C3_Witness ==
  \E a, b \in Attempts :
    /\ Done(a) /\ Presenter(a) /\ att[a].bindErr = UnavailableError
    /\ Done(b) /\ Presenter(b) /\ att[b].bindErr \in {BadCredentials, MissingConnection}

\* C4: presenterAuth, bind succeeded and the local store holds "LDAP-" + user:
\* that local user is returned verbatim with no error, and getLDAPUser is not
\* called, whatever the search would have returned.
C4_LocalUserBeforeSearch ==
  \A a \in Attempts :
    (Presenter(a) /\ att[a].bindErr = Null /\ Truthy(att[a].localAtBind)) =>
      /\ att[a].calls.getLDAPUser = 0
      /\ Done(a) => /\ Absent(att[a].result.err)
                    /\ att[a].result.user = att[a].localAtBind

\* C5: presenterAuth, bind succeeded, no local user, and the presenter search
\* ended with an empty record: the host gets no error and no user, and
\* importLocalUser was not called.
C5_PresenterEmptyRecord ==
  \A a \in Attempts :
    (Done(a) /\ Presenter(a) /\ att[a].bindErr = Null /\ att[a].localAtBind = Null
       /\ att[a].ldapUser = [t |-> "object"]) =>
      /\ Absent(att[a].result.err)
      /\ Absent(att[a].result.user)
      /\ att[a].calls.importLocalUser = 0

C5_Witness ==
  \E a \in Attempts :
    /\ Done(a) /\ Presenter(a) /\ att[a].bindErr = Null /\ att[a].localAtBind = Null
    /\ att[a].ldapUser = [t |-> "object"]

\* The local lookup of attempt a answered: no error, no user.
NoLocalUser(a) == att[a].found = [err |-> Null, user |-> Null]

\* C6: presenterAuth, bind succeeded, no local user, the search found a record
\* {name, email}: importLocalUser is called once, with user "LDAP-" + user, pass
\* "LDAP", external true and the record's name and email; when the import
\* succeeds the host gets no error and the user the import returned.
C6_PresenterImport ==
  \A a \in Attempts :
    (Presenter(a) /\ att[a].bindErr = Null /\ NoLocalUser(a)) =>
      /\ att[a].calls.importLocalUser = 1
      /\ att[a].importArg =
           [t |-> "object",
            name |-> att[a].lastEntry.displayName,
            email |-> att[a].lastEntry.mail,
            user |-> Str(<<"LDAP-">> \o att[a].auth.user.s),
            pass |-> Str(<<"LDAP">>),
            external |-> True]
      /\ (Done(a) /\ att[a].importErr = Null) =>
           /\ att[a].result.err = Null
           /\ att[a].result.user = att[a].importArg

C6_Witness ==
  \E a \in Attempts :
    /\ Done(a) /\ Presenter(a) /\ att[a].bindErr = Null /\ NoLocalUser(a)
    /\ att[a].importErr = Null
    /\ att[a].result.user \in store

\* C7: presenterAuth, importLocalUser failed: the host gets the import error
\* and no user.
C7_ImportErrorNoUser ==
  \A a \in Attempts :
    (Done(a) /\ Presenter(a) /\ Truthy(att[a].importErr)) =>
      /\ att[a].result.err = att[a].importErr
      /\ Absent(att[a].result.user)

\* C8: presenterAuth, findLocalUser reported an error: the host gets that error
\* and no user, and importLocalUser is not called.
C8_LookupErrorIsHard ==
  \A a \in Attempts :
    (Presenter(a) /\ "err" \in DOMAIN att[a].found /\ Truthy(att[a].found.err)) =>
      /\ att[a].calls.importLocalUser = 0
      /\ Done(a)
      /\ att[a].result.err = att[a].found.err
      /\ Absent(att[a].result.user)

\* C9: clientAuth, any bind failure (InvalidCredentialsError, MissingConnection
\* and BadCredentials included): the host gets that error and no user, and no
\* search is issued.
C9_ClientBindError ==
  \A a \in Attempts :
    (Done(a) /\ Client(a) /\ Truthy(att[a].bindErr)) =>
      /\ att[a].result.err = att[a].bindErr
      /\ Absent(att[a].result.user)
      /\ att[a].calls.getLDAPUser = 0
      /\ att[a].calls.search = 0

C9_Witness ==
  \E a, b \in Attempts :
    /\ Done(a) /\ Client(a) /\ att[a].bindErr = InvalidCredentialsError
    /\ Done(b) /\ Client(b) /\ att[b].bindErr \in {BadCredentials, MissingConnection}

\* C10: clientAuth, bind succeeded and the client search yielded a record: the
\* host gets exactly that record and no error; clientAuth never calls
\* findLocalUser or importLocalUser.
C10_ClientRecord ==
  \A a \in Attempts :
    Client(a) =>
      /\ att[a].calls.findLocalUser = 0
      /\ att[a].calls.importLocalUser = 0
      /\ (Done(a) /\ att[a].bindErr = Null /\ att[a].ldapUser.t = "object") =>
           /\ att[a].result.err = Null
           /\ att[a].result.user = att[a].ldapUser
           /\ att[a].result.user =
                IF att[a].lastEntry = Undef THEN [t |-> "object"]
                ELSE [t |-> "object",
                      name |-> Get(att[a].lastEntry, "displayName"),
                      email |-> Get(att[a].lastEntry, "mail")]

C10_Witness ==
  \E a \in Attempts :
    /\ Done(a) /\ Client(a) /\ att[a].bindErr = Null
    /\ att[a].ldapUser.t = "object"
    /\ Truthy(Get(att[a].result.user, "name"))

\* The handles that were created and not yet unbound.
LiveHandles == {h \in 1..Len(handles) : handles[h].unbinds = 0}

\* Attempt a stopped: it delivered, it threw, or its stream closed on an error.
Stopped(a) == att[a].pc \in {"done", "crashed", "closed"}

\* C11: clientAuth, bind succeeded and the client-filter search ended without
\* any searchEntry event: no user is delivered to the host callback.
C11_ClientNoEntryNoUser ==
  \A a \in Attempts :
    (Done(a) /\ Client(a) /\ att[a].bindErr = Null /\ att[a].lastEntry = Undef) =>
      Absent(att[a].result.user)

\* C12: an error that getLDAPUser returns, from the search call itself or from
\* an error event of the stream, reaches the host callback unchanged and with
\* no user, in presenterAuth and in clientAuth; presenterAuth does not call
\* findLocalUser or importLocalUser afterwards.
C12_SearchErrorDelivered ==
  \A a \in Attempts :
    /\ Truthy(att[a].searchErr) =>
         /\ Done(a)
         /\ att[a].result.err = att[a].searchErr
         /\ Absent(att[a].result.user)
         /\ att[a].calls.findLocalUser = 0
         /\ att[a].calls.importLocalUser = 0
    /\ (Truthy(att[a].failure) /\ att[a].pc \notin {"streaming", "closed"}) =>
         /\ Done(a)
         /\ att[a].result.err = att[a].failure
         /\ Absent(att[a].result.user)
         /\ att[a].calls.findLocalUser = 0
         /\ att[a].calls.importLocalUser = 0

C12_Witness ==
  \E a, b \in Attempts :
    /\ Done(a) /\ Presenter(a) /\ Truthy(att[a].searchErr)
    /\ Done(b) /\ Truthy(att[b].failure) /\ att[b].lastEntry # Undef

\* C13: every attempt, whatever way it takes, calls disconnect exactly once,
\* and not after the host callback got the result.
C13_DisconnectOnce ==
  \A a \in Attempts :
    /\ att[a].calls.disconnect <= 1
    /\ att[a].calls.cb <= att[a].calls.disconnect
    /\ Stopped(a) => att[a].calls.disconnect = 1

\* C14: an attempt whose bind called back once and whose stream terminated, by
\* an end event or by an error event alone, completes: the host callback is
\* called exactly once, with the error of the stream if it closed on one.
C14_StreamTerminatedCompletes ==
  \A a \in Attempts :
    /\ att[a].calls.cb <= 1
    /\ Done(a) => att[a].calls.cb = 1
    /\ att[a].pc = "closed" =>
         /\ att[a].calls.cb = 1
         /\ att[a].result.err = att[a].failure

\* C15: at most one handle returned by createClient is live at any time.
C15_OneLiveHandle == Cardinality(LiveHandles) <= 1

\* C16: interleaved attempts do not share the handle: an attempt that waits for
\* its bind or its search still has its handle open and installed, and every
\* search runs on the handle the same attempt created and bound.
C16_HandleNotShared ==
  \A a \in Attempts :
    /\ (att[a].pc \in {"binding", "searching", "streaming"}) =>
         /\ att[a].handle \in LiveHandles
         /\ client = att[a].handle
    /\ att[a].calls.search = 1 =>
         /\ att[a].searchOn # 0
         /\ att[a].searchOn = att[a].handle

\* Attempt a connected, bound and searched with the values of configuration cfg.
UsesOnly(a, cfg) ==
  LET user == Get(att[a].auth, "user")
      filter == IF Presenter(a) THEN cfg.presenterFilter ELSE cfg.clientFilter
  IN /\ att[a].handle # 0
     /\ handles[att[a].handle].url = cfg.hostname
     /\ att[a].dn = Replace(cfg.bindDNFormat, USER_ID, user)
     /\ att[a].base = cfg.baseDN
     /\ att[a].filter = Replace(filter, USER_ID, user)

\* C17: within one attempt the hostname of connect, the bind pattern of bind
\* and the base DN and filter of the search come from one configuration
\* version, also when the configuration is replaced between bind and search.
C17_OneConfigVersion ==
  \A a \in Attempts :
    att[a].calls.search = 1 =>
      \E cfg \in {GoodConfig, OtherConfig} : UsesOnly(a, cfg)

\* The fields that hold a template with the placeholder.
TemplateFields == {"bindDNFormat", "presenterFilter", "clientFilter"}

\* The message that says that field f is not set.
RequiredError(f) ==
  CASE f = "hostname" -> "Hostname is required"
    [] f = "bindDNFormat" -> "Bind DN format is required"
    [] f = "baseDN" -> "Base DN is required"
    [] f = "presenterFilter" -> "Presenter filter is required"
    [] f = "clientFilter" -> "Client filter is required"

\* The message that says that template field f lacks the placeholder.
PlaceholderError(f) ==
  CASE f = "bindDNFormat" -> "Invalid bindDN format - missing \"{{user id}}\""
    [] f = "presenterFilter" ->
         "Invalid presenter filter format - missing \"{{user id}}\""
    [] f = "clientFilter" -> "Invalid client filter format - missing \"{{user id}}\""

\* Field f of cfg is set.
Set(cfg, f) == Get(cfg, f).t = "string" /\ Get(cfg, f).s # <<>>

\* Field f of cfg is set, and holds the placeholder if it is a template.
FieldOk(cfg, f) ==
  /\ Set(cfg, f)
  /\ f \in TemplateFields => \E i \in 1..Len(cfg[f].s) : cfg[f].s[i] = USER_ID

\* cfg is an object whose fields other than f are all good.
GoodExcept(cfg, f) ==
  cfg.t = "object" /\ \A g \in Fields \ {f} : FieldOk(cfg, g)

\* C18: validateConfiguration of a configuration that is good except that
\* exactly one field is not set returns exactly one error, the "required"
\* message of that field, and no placeholder error for it.
C18_OneMissingField ==
  \A f \in Fields :
    (GoodExcept(config, f) /\ ~Set(config, f)) =>
      validateConfiguration(config) = <<RequiredError(f)>>

C18_Witness ==
  /\ started > 0 /\ client = 0 /\ handles = <<>>
  /\ GoodExcept(config, "presenterFilter")
  /\ config.presenterFilter = Str(<<>>)

\* C19: validateConfiguration of a configuration that is good except that
\* exactly one template field is set but lacks the placeholder returns exactly
\* one error, the placeholder message of that field, which is not the
\* "required" message of that field.
C19_OneMissingPlaceholder ==
  \A f \in TemplateFields :
    (GoodExcept(config, f) /\ Set(config, f) /\ ~FieldOk(config, f)) =>
      /\ validateConfiguration(config) = <<PlaceholderError(f)>>
      /\ PlaceholderError(f) # RequiredError(f)

C19_Witness ==
  /\ started > 0 /\ client = 0 /\ handles = <<>>
  /\ GoodExcept(config, "clientFilter")
  /\ config.clientFilter = Str(<<"Filled out but no magic string">>)

\* C20: validateConfiguration without a configuration returns exactly one
\* error, "No configuration has been loaded", and none of the messages of the
\* per-field checks.
C20_NoConfiguration ==
  config \in {Null, Undef} =>
    /\ validateConfiguration(config) = <<"No configuration has been loaded">>
    /\ \A f \in Fields :
         \A i \in 1..Len(validateConfiguration(config)) :
           validateConfiguration(config)[i] # RequiredError(f)

C20_Witness == config = Null /\ started > 0 /\ client = 0 /\ handles = <<>>

\* The messages that validateConfiguration has for field f.
ErrorsOf(f) ==
  {RequiredError(f)} \cup (IF f \in TemplateFields THEN {PlaceholderError(f)} ELSE {})

\* C21: validateConfiguration of a configuration object runs every check: the
\* number of errors is the number of fields not set plus the number of
\* template fields that are set without the placeholder, each field has at
\* most one error in the list, and the list is empty exactly when all five
\* fields are set and the templates hold the placeholder.
C21_ErrorsAccumulate ==
  config.t = "object" =>
    LET errors == validateConfiguration(config)
    IN /\ Len(errors) =
            Cardinality({f \in Fields : ~Set(config, f)})
            + Cardinality({f \in TemplateFields :
                             Set(config, f) /\ ~FieldOk(config, f)})
       /\ \A f \in Fields :
            Cardinality({i \in 1..Len(errors) : errors[i] \in ErrorsOf(f)}) <= 1
       /\ (errors = <<>>) <=> (\A f \in Fields : FieldOk(config, f))

C21_Witness ==
  /\ started > 0 /\ client = 0 /\ config.t = "object"
  /\ ~Set(config, "hostname") /\ ~Set(config, "clientFilter")
  /\ Set(config, "bindDNFormat") /\ ~FieldOk(config, "bindDNFormat")
  /\ FieldOk(config, "baseDN") /\ FieldOk(config, "presenterFilter")

\* The template with every placeholder replaced by the user name as it is.
ReplaceAll(template, user) ==
  LET Expand[i \in 0..Len(template.s)] ==
        IF i = 0 THEN <<>>
        ELSE Expand[i - 1]
             \o (IF template.s[i] = USER_ID THEN StringOf(user)
                 ELSE <<template.s[i]>>)
  IN Str(Expand[Len(template.s)])

\* C22: the bind DN that bind passes and the filter that getLDAPUser passes
\* are the template with every "{{user id}}" replaced by the user name and
\* every other part unchanged.
C22_EveryPlaceholderReplaced ==
  \A a \in Attempts :
    /\ att[a].calls.bind = 1 =>
         att[a].dn = ReplaceAll(config.bindDNFormat, att[a].auth.user)
    /\ att[a].calls.search = 1 =>
         att[a].filter =
           ReplaceAll(IF Presenter(a) THEN config.presenterFilter
                      ELSE config.clientFilter, att[a].auth.user)

\* C23: every change of the stored configuration replaces it by a record of
\* exactly the five known fields, each copied from the data handed in: no
\* other field of the data is stored, and a field the data lacks is undefined
\* afterwards, whatever the configuration before held.
C23_LoadConfigReplaces ==
  [][config' # config =>
       /\ DOMAIN config' = Fields \cup {"t"}
       /\ \E data \in ConfigInputs \cup {OtherConfig} :
            \A f \in Fields : config'[f] = Get(data, f)]_vars

C23_Witness ==
  /\ handles # <<>>
  /\ DOMAIN config = Fields \cup {"t"}
  /\ \A f \in Fields : config[f] = Undef

\* C24: a call of connect() under a configuration with any validation error
\* creates no handle and leaves LDAPAuth.client as it was; under a
\* configuration without error it creates one handle for config.hostname,
\* which becomes LDAPAuth.client.
C24_ConnectValidates ==
  [][started' # started =>
       IF validateConfiguration(config) # <<>>
       THEN client' = client /\ handles' = handles
       ELSE /\ handles' = Append(handles, [url |-> config.hostname, unbinds |-> 0])
            /\ client' = Len(handles')]_vars

C24_Witness ==
  /\ started > 0 /\ client # 0
  /\ handles[client] = [url |-> GoodConfig.hostname, unbinds |-> 0]

\* C25: disconnect() with a handle unbinds that handle once and clears
\* LDAPAuth.client; without a handle it changes nothing; so a second
\* disconnect in a row unbinds nothing, and no handle is unbound twice.
C25_DisconnectOnce ==
  [][/\ (started' = started) =>
          /\ client # 0 /\ client' = 0
          /\ handles' = [handles EXCEPT ![client].unbinds = @ + 1]
     /\ (client' = 0) =>
          disconnect(client', handles') = [client |-> client', handles |-> handles']
     /\ \A h \in 1..Len(handles') : handles'[h].unbinds <= 1]_vars

C25_Witness ==
  client = 0 /\ \E h \in 1..Len(handles) : handles[h].unbinds = 1

\* C26: every call of bind() calls connect() once and first: under a valid
\* configuration each attempt that starts creates one handle for
\* config.hostname, whatever the credentials and whether or not
\* LDAPAuth.client already holds a handle.
C26_BindConnectsFirst ==
  [][started' # started =>
       /\ \A a \in Attempts : att'[a].kind # "none" => att'[a].calls.connect = 1
       /\ validateConfiguration(config) = <<>> =>
            /\ Len(handles') = Len(handles) + 1
            /\ handles'[Len(handles')].url = config.hostname]_vars

C26_Witness ==
  /\ att["a1"].pc = "done" /\ att["a1"].handle = 2
  /\ att["a1"].bindErr = BadCredentials
  /\ handles[1].unbinds = 0

\* The attempt in slot a was started.
Started(a) == att[a].kind # "none"

\* Credentials with a user and a password: neither is absent or empty.
WellFormed(auth) ==
  /\ auth.t = "object"
  /\ \A f \in {"user", "password"} : Truthy(Get(auth, f))

\* C27: when LDAPAuth.client holds no handle after connect(), as under every
\* invalid or absent configuration when starting without one, bind fails with
\* MissingConnection whatever the credentials, no directory bind is issued,
\* and that error is what the host gets.
C27_MissingConnection ==
  \A a \in Attempts :
    Started(a) =>
      /\ validateConfiguration(config) # <<>> => att[a].handle = 0
      /\ att[a].handle = 0 =>
           /\ att[a].bindErr = MissingConnection
           /\ att[a].calls.bind = 0
           /\ Done(a) /\ att[a].result.err = MissingConnection

C27_Witness ==
  \E a \in Attempts :
    Started(a) /\ config = Null /\ att[a].auth = Null /\ att[a].handle = 0

\* C28: with a handle after connect() and credentials that are absent or lack
\* a user or a password, bind fails with BadCredentials and the directory
\* client's bind is not called.
C28_BadCredentials ==
  \A a \in Attempts :
    (Started(a) /\ att[a].handle # 0 /\ ~WellFormed(att[a].auth)) =>
      /\ att[a].bindErr = BadCredentials
      /\ att[a].calls.bind = 0
      /\ att[a].dn = Undef

C28_Witness ==
  \E a \in Attempts :
    /\ Started(a) /\ att[a].handle # 0
    /\ att[a].auth.t = "object" /\ "user" \notin DOMAIN att[a].auth

\* C29: with a handle and well-formed credentials the directory bind is
\* issued once, with the bind DN made from config.bindDNFormat and with the
\* password; an error of the directory is the error of bind, unchanged, and
\* success of the directory is no error.
C29_DirectoryBind ==
  \A a \in Attempts :
    (Started(a) /\ att[a].handle # 0 /\ WellFormed(att[a].auth)) =>
      /\ att[a].calls.bind = 1
      /\ att[a].dn = Replace(config.bindDNFormat, USER_ID, att[a].auth.user)
      /\ att[a].password = att[a].auth.password
      /\ att[a].pc # "binding" =>
           att[a].bindErr = IF Truthy(att[a].dirErr) THEN att[a].dirErr ELSE Null

C29_Witness ==
  \E a \in Attempts :
    /\ Started(a) /\ att[a].handle # 0 /\ WellFormed(att[a].auth)
    /\ att[a].dirErr = UnavailableError /\ Done(a)

\* C30: getLDAPUser, an error event fired before the end event, also after
\* searchEntry events: the callback of getLDAPUser gets that error and no
\* record.
C30_ErrorEventWins ==
  \A a \in Attempts :
    (att[a].ldapErr # Undef /\ Truthy(att[a].failure)) =>
      /\ att[a].ldapErr = att[a].failure
      /\ Absent(att[a].ldapUser)

C30_Witness ==
  \E a \in Attempts :
    /\ att[a].ldapErr = OperationsError
    /\ att[a].lastEntry # Undef
    /\ Get(att[a].newUser, "email") # Undef

\* C31: getLDAPUser, the search call itself reports an error: the callback is
\* invoked once, in the same step, with that error and no record; no handler is
\* registered on a stream, so no searchEntry, error or end event of the search
\* acts on the attempt and no second callback follows.
C31_SearchCallError ==
  \A a \in Attempts :
    Truthy(att[a].searchErr) =>
      /\ Done(a)
      /\ att[a].calls.cb = 1
      /\ att[a].calls.getLDAPUser = 1
      /\ att[a].result = [err |-> att[a].searchErr, user |-> Null]
      /\ att[a].newUser = Undef /\ att[a].failure = Undef
      /\ att[a].lastEntry = Undef /\ att[a].events = 0
      /\ att[a].ldapErr = Undef /\ att[a].ldapUser = Undef

C31_Witness ==
  \E a, b \in Attempts :
    /\ a # b
    /\ Done(a) /\ Client(a) /\ att[a].searchErr = OperationsError
    /\ att[a].calls.cb = 1
    /\ att[b].pc = "streaming" /\ att[b].events > 0

\* C32: getLDAPUser, the stream ends with no searchEntry and no error event:
\* the callback gets no error and an empty record that is not null, with no
\* name and no email.
C32_EmptyStream ==
  \A a \in Attempts :
    (att[a].ldapErr # Undef /\ att[a].lastEntry = Undef /\ ~Truthy(att[a].failure)) =>
      /\ att[a].ldapErr = Null
      /\ att[a].ldapUser.t = "object"
      /\ DOMAIN att[a].ldapUser = {"t"}

C32_Witness ==
  \E a \in Attempts :
    /\ Client(a) /\ Done(a)
    /\ att[a].ldapErr = Null /\ att[a].lastEntry = Undef /\ att[a].failure = Null
    /\ att[a].result.user = [t |-> "object"]

\* C33: getLDAPUser, several searchEntry events before end: the record's name
\* and email are both those of the last entry, while the stream runs and when
\* the record is delivered; a field the last entry lacks does not keep the value
\* an earlier entry gave it.
C33_LastEntryWins ==
  \A a \in Attempts :
    att[a].lastEntry # Undef =>
      /\ att[a].newUser.name = Get(att[a].lastEntry, "displayName")
      /\ att[a].newUser.email = Get(att[a].lastEntry, "mail")
      /\ (att[a].calls.importLocalUser = 0) =>
           DOMAIN att[a].newUser = {"t", "name", "email"}
      /\ (att[a].ldapErr = Null) => att[a].ldapUser = att[a].newUser

C33_Witness ==
  \E a, b \in Attempts :
    /\ att[b].pc = "streaming" /\ att[b].events = 2 /\ att[b].failure = Null
    /\ att[b].newUser.name = Undef
    /\ att[a].ldapErr = Null /\ att[a].calls.cb = 1
    /\ att[a].lastEntry = [t |-> "object", mail |-> Str(<<"list@example.com">>)]
    /\ att[a].ldapUser.name = Undef
    /\ att[a].ldapUser.email = Str(<<"list@example.com">>)

\* Attempt a delivered the fallback outcome: no error and no user.
Fallback(a) == Done(a) /\ Absent(att[a].result.err) /\ Absent(att[a].result.user)

\* C35: presenterAuth delivers the fallback outcome exactly when the bind
\* failed with InvalidCredentialsError or the presenter search completed
\* without error with a record that has no name; MissingConnection,
\* BadCredentials, search errors and errors of the local store never become the
\* fallback outcome, and clientAuth never delivers it after a bind failure.
C35_FallbackExactly ==
  \A a \in Attempts :
    /\ (Done(a) /\ Presenter(a)) =>
         /\ Fallback(a) <=>
              \/ att[a].bindErr = InvalidCredentialsError
              \/ /\ att[a].bindErr = Null /\ att[a].ldapErr = Null
                 /\ ~Truthy(Get(att[a].ldapUser, "name"))
         /\ (\/ att[a].bindErr \in {MissingConnection, BadCredentials}
             \/ Truthy(att[a].searchErr) \/ Truthy(att[a].failure)
             \/ Truthy(Get(att[a].found, "err")) \/ Truthy(att[a].importErr))
              => ~Fallback(a)
    /\ (Done(a) /\ Client(a) /\ Truthy(att[a].bindErr)) => ~Fallback(a)

C35_Witness ==
  \E a, b \in Attempts :
    /\ Presenter(a) /\ Fallback(a) /\ att[a].bindErr = InvalidCredentialsError
    /\ Presenter(b) /\ Fallback(b) /\ att[b].bindErr = Null
    /\ att[b].ldapUser = [t |-> "object", name |-> Undef,
                          email |-> Str(<<"list@example.com">>)]

\* C36: no result delivered to the host callback by presenterAuth or clientAuth
\* carries both an error and a user.
C36_ErrorOrUser ==
  \A a \in Attempts :
    Done(a) => ~(Truthy(att[a].result.err) /\ ~Absent(att[a].result.user))

\* C37: attempts run one after another: when an attempt has completed, the
\* client handle is absent, the handle the attempt's connect() created has been
\* unbound once, and no handle has been unbound twice.
C37_NoHandleLeft ==
  \A a \in Attempts :
    Done(a) =>
      /\ client = 0
      /\ att[a].handle # 0 => handles[att[a].handle].unbinds = 1
      /\ \A h \in 1..Len(handles) : handles[h].unbinds <= 1

C37_Witness ==
  /\ Done("a1") /\ client = 0
  /\ att["a1"].handle = 2 /\ ~Absent(att["a1"].result.user)
  /\ handles[1].unbinds = 1 /\ handles[2].unbinds = 1

\* C38: importLocalUser is not invoked for a name for which the local store
\* holds a user at the moment of the call, also when the lookup answered
\* without error and two presenterAuth attempts for the same new user name are
\* in flight together.
C38_ImportOnlyNewName ==
  [][\A a \in Attempts :
       (att[a].pc = "finding" /\ att'[a].pc = "importing"
          /\ att'[a].found.err = Null) =>
         ~Truthy(Lookup(store, att'[a].importArg.user))]_vars

\* How many times document d is in the list s.
Count(s, d) == Cardinality({i \in 1..Len(s) : s[i] = d})

\* C34: configLoaded(documents) calls setConfig once for each document named
\* "ldap-authentication", with that document, and for no other document; with
\* exactly one such document in the list setConfig is called exactly once.
C34_ConfigLoadedSelects ==
  LET named(d) == "name" \in DOMAIN d /\ d.name = Str(<<"ldap-authentication">>)
      documents == loaded.documents
      calls == loaded.setConfig
  IN documents # <<>> =>
       /\ \A d \in Documents :
            Count(calls, d) = IF named(d) THEN Count(documents, d) ELSE 0
       /\ Cardinality({i \in 1..Len(documents) : named(documents[i])}) = 1 =>
            Len(calls) = 1

C34_Witness ==
  /\ Len(loaded.documents) = 3 /\ Len(loaded.setConfig) = 1
  /\ loaded.documents[2] = loaded.setConfig[1]
  /\ config = GoodConfig

====
